---- MODULE Spec2Model ----
(***************************************************************************)
(* btrx.py: the Bluetooth receiver flow graph of gr-bluetooth.             *)
(*                                                                         *)
(* my_top_block.__init__ parses the options, resolves and validates the    *)
(* sample rate, selects the source, inserts the optional head and          *)
(* short-to-complex stages, and builds one ddc/demod/decoder branch per    *)
(* entry of the --ddc list.  __main__ runs the flow graph and swallows     *)
(* KeyboardInterrupt.                                                      *)
(*                                                                         *)
(* Floating point values are modelled as exact rationals <<num, den>> in   *)
(* lowest terms with den > 0.  Python strings that the code converts       *)
(* (the --ddc list, --lap, --uap) are sequences of one-character strings.  *)
(* An optional value is <<>> (None) or <<v>>.                              *)
(***************************************************************************)
EXTENDS Integers, Sequences, FiniteSets, TLC

VARIABLES
    options,             \* the parsed command line (read-only after parse_args)
    sample_rate,         \* options.sample_rate, assigned at line 74
    pc,                  \* position of the script
    err,                 \* the exception raised out of __init__, "" if none
    blocks,              \* block instances in order of creation; id = index
    edges,               \* connections made by self.connect: <<from id, to id>>
    src, stage1, stage2, \* ids of the source and of the stage outputs, 0 = unset
    decimation_rate,     \* line 130, 0 = unset
    samples_per_symbol,  \* line 131, <<>> = unset
    todo,                \* the entries of options.ddc.split(",") not yet visited
    held,                \* ids of blocks holding a device handle or an open file
    started,             \* ids of blocks whose work function is scheduled
    flow,                \* item counters of the running graph
    interrupted,         \* KeyboardInterrupt was delivered
    exit_status          \* <<>> while the process lives, <<status>> after exit

vars == <<options, sample_rate, pc, err, blocks, edges, src, stage1, stage2,
          decimation_rate, samples_per_symbol, todo, held, started, flow,
          interrupted, exit_status>>

---------------------------------------------------------------------------
(* Bounds of the model.                                                    *)

MaxDecim == 52      \* --decim ranges over -1 .. MaxDecim
MaxRateK == 12      \* explicit --sample-rate ranges over k * 500 kHz, k <= MaxRateK
MaxDdcLen == 5      \* longest --ddc string, in characters
MaxItems == 4       \* most items a source delivers in a run
MaxN == 3           \* largest --nsamples

---------------------------------------------------------------------------
(* Optional values.                                                        *)

None == <<>>
Some(v) == <<v>>
Val(o) == o[1]

---------------------------------------------------------------------------
(* Python float arithmetic on exact rationals.                             *)

Abs(x) == IF x < 0 THEN -x ELSE x

RECURSIVE GCD(_, _)
GCD(a, b) == IF b = 0 THEN a ELSE GCD(b, a % b)

\* n / d in lowest terms, d # 0
Rat(n, d) ==
    LET s == IF d < 0 THEN -1 ELSE 1
        g == GCD(Abs(n), Abs(d))
    IN  <<(s * n) \div g, (s * d) \div g>>

RatMul(a, b) ==
    LET g1 == GCD(Abs(a[1]), b[2])
        g2 == GCD(Abs(b[1]), a[2])
    IN  Rat((a[1] \div g1) * (b[1] \div g2), (a[2] \div g2) * (b[2] \div g1))

\* a / b, b # 0
RatDiv(a, b) == RatMul(a, Rat(b[2], b[1]))

RatLess(a, b) == a[1] * b[2] < b[1] * a[2]

\* Python int(x) of a float: truncation toward zero
Trunc(a) == IF a[1] >= 0 THEN a[1] \div a[2] ELSE -((-a[1]) \div a[2])

---------------------------------------------------------------------------
(* String conversions.                                                     *)

DecDigits == <<"0", "1", "2", "3", "4", "5", "6", "7", "8", "9">>
HexDigits == DecDigits \o <<"a", "b", "c", "d", "e", "f">>

DigitVal(table, c) == (CHOOSE k \in 1..Len(table) : table[k] = c) - 1
AllIn(table, s) == \A k \in 1..Len(s) : \E j \in 1..Len(table) : table[j] = s[k]

RECURSIVE PosVal(_, _, _)
PosVal(table, base, s) ==
    IF s = <<>> THEN 0
    ELSE PosVal(table, base, SubSeq(s, 1, Len(s) - 1)) * base
         + DigitVal(table, s[Len(s)])

\* float(s) for an unsigned decimal integer literal; None when s is rejected
ParseFloat(s) ==
    IF s # <<>> /\ AllIn(DecDigits, s) THEN Some(Rat(PosVal(DecDigits, 10, s), 1))
    ELSE None

\* eng_notation: the scale a trailing suffix letter stands for
SuffixScale(c) ==
    CASE c = "M" -> Rat(1000000, 1)
      [] c = "k" -> Rat(1000, 1)
      [] c = "m" -> Rat(1, 1000)
      [] OTHER   -> Rat(1, 1)

\* eng_notation.str_to_num(value); None when it raises
str_to_num(value) ==
    IF value = <<>> THEN None
    ELSE LET scale == SuffixScale(value[Len(value)])
             body  == IF scale # Rat(1, 1)
                      THEN SubSeq(value, 1, Len(value) - 1) ELSE value
             f     == ParseFloat(body)
         IN  IF f = None THEN None ELSE Some(RatMul(Val(f), scale))

\* int(s, 16); None when it raises ValueError
HexToInt(s) ==
    IF s # <<>> /\ AllIn(HexDigits, s) THEN Some(PosVal(HexDigits, 16, s))
    ELSE None

\* s.split(","): the pieces between the commas, empty pieces kept
RECURSIVE Split(_)
Split(s) ==
    IF \A k \in 1..Len(s) : s[k] # "," THEN <<s>>
    ELSE LET k == CHOOSE k \in 1..Len(s) :
                      s[k] = "," /\ \A j \in 1..(k - 1) : s[j] # ","
         IN  <<SubSeq(s, 1, k - 1)>> \o Split(SubSeq(s, k + 1, Len(s)))

---------------------------------------------------------------------------
(* Program constants.                                                      *)

symbol_rate == 1000000
min_samples_per_symbol == 2
min_sample_rate == Rat(symbol_rate * min_samples_per_symbol, 1)

AdcRateUsrp2 == 100000000
AdcRateUsrp == 64000000

\* the two ADC rates of lines 70 and 73 exchanged
adc_rate_swapped(o) == IF o.usrp2 THEN AdcRateUsrp ELSE AdcRateUsrp2

\* the adc_rate the code assumes for the original source
adc_rate(o) == IF o.usrp2 THEN AdcRateUsrp2 ELSE AdcRateUsrp

\* the item size of the source and of the head
input_size(o) == IF o.input_shorts THEN "sizeof_short" ELSE "sizeof_gr_complex"

---------------------------------------------------------------------------
(* The command lines explored.                                             *)

\* the option defaults of the parser; nargs is len(args)
Defaults ==
    [nargs |-> 0, nsamples |-> None, ddc |-> <<"0">>, decim |-> 32,
     input_file |-> None, lap |-> None, dump |-> FALSE, sample_rate |-> None,
     input_shorts |-> FALSE, packets |-> 100, uap |-> None, usrp2 |-> FALSE]

Decims == (-1)..MaxDecim

ExplicitRates ==
    {Some(Rat(k * 500000, 1)) : k \in 1..MaxRateK}
    \cup {Some(Rat(1999999, 1)), Some(Rat(3999999, 2)), Some(Rat(2000001, 1)),
          Some(Rat(3999999, 1))}

InputFiles == {None, Some("-"), Some("capture.cfile")}

NSamples == {None, Some(Rat(3, 2))} \cup {Some(Rat(n, 1)) : n \in 0..MaxN}

DdcAlphabet == {"0", "1", "k", ","}
DdcStrings == UNION {[1..n -> DdcAlphabet] : n \in 0..MaxDdcLen}

\* the lists "0", "0,1M", "0,0" and "0,1000000,2000000"
DdcLists ==
    {<<"0">>, <<"0", ",", "1", "M">>, <<"0", ",", "0">>,
     <<"0", ",", "1", "0", "0", "0", "0", "0", "0", ",",
       "2", "0", "0", "0", "0", "0", "0">>}

Laps == {None, Some(<<"1", "a">>), Some(<<"g", "1">>)}
Uaps == {None, Some(<<"4", "7">>), Some(<<>>)}

\* the rate options vary, with every source
RateSlice ==
    {[Defaults EXCEPT !.decim = d, !.usrp2 = u, !.input_file = f] :
        d \in Decims, u \in BOOLEAN, f \in InputFiles}
    \cup {[Defaults EXCEPT !.sample_rate = r, !.decim = d, !.usrp2 = u,
                           !.input_file = f] :
        r \in ExplicitRates, d \in {0, 32}, u \in BOOLEAN, f \in InputFiles}

\* the decoder options vary, over several channel lists
ModeSlice ==
    {[Defaults EXCEPT !.dump = m, !.lap = l, !.uap = u, !.packets = p,
                      !.ddc = c, !.input_file = Some("capture.cfile")] :
        m \in BOOLEAN, l \in Laps, u \in Uaps, p \in {100, 7}, c \in DdcLists}

\* the channel list varies over every short string
DdcSlice == {[Defaults EXCEPT !.ddc = c] : c \in DdcStrings}

\* the stream options vary; usrp.source_c emits complex samples, so
\* --input-shorts goes with a file or standard input
RunSlice ==
    {o \in {[Defaults EXCEPT !.nsamples = n, !.input_shorts = s,
                             !.input_file = f, !.ddc = c] :
               n \in NSamples, s \in BOOLEAN, f \in InputFiles, c \in DdcLists} :
        o.input_shorts => o.input_file # None}

ArgsSlice == {[Defaults EXCEPT !.nargs = 1]}

---------------------------------------------------------------------------
(* The initial state: the interpreter is about to call my_top_block().     *)

\* the item counters before the graph runs; total and eof are the
\* environment's: how many items the source has and whether standard input
\* then reaches end of file (a file always does, the USRP never does)
Flow0(total, eof) ==
    [total |-> total, eof |-> eof, produced |-> 0, passed |-> 0,
     converted |-> 0, consumed |-> <<>>]

Init ==
    /\ \/ /\ options \in RateSlice \cup ModeSlice \cup DdcSlice \cup ArgsSlice
          /\ flow = Flow0(1, TRUE)
       \/ /\ options \in RunSlice
          /\ \E total \in 0..MaxItems :
                \E eof \in (IF options.input_file = Some("-") THEN BOOLEAN ELSE {TRUE}) :
                    flow = Flow0(total, eof)
    /\ sample_rate = options.sample_rate
    /\ pc = "start"
    /\ err = ""
    /\ blocks = <<>>
    /\ edges = {}
    /\ src = 0 /\ stage1 = 0 /\ stage2 = 0
    /\ decimation_rate = 0
    /\ samples_per_symbol = None
    /\ todo = <<>>
    /\ held = {}
    /\ started = {}
    /\ interrupted = FALSE
    /\ exit_status = None

---------------------------------------------------------------------------
(* my_top_block.__init__, step by step.                                    *)

Raise(e) == pc' = "raised" /\ err' = e

\* self.connect(a, b, ...): one connection per consecutive pair
Connect(chain) == {<<chain[k], chain[k + 1]>> : k \in 1..(Len(chain) - 1)}

NewId == Len(blocks) + 1

\* lines 54-57: positional arguments are rejected
ParseArgs ==
    /\ pc = "start"
    /\ IF options.nargs # 0
       THEN Raise("SystemExit: 1")
       ELSE pc' = "resolve" /\ err' = err
    /\ UNCHANGED <<options, sample_rate, blocks, edges, src, stage1, stage2,
                   decimation_rate, samples_per_symbol, todo, held, started,
                   flow, interrupted, exit_status>>

\* line 74: the rate computed from the assumed ADC rate, o.decim # 0
ComputedRate(o) == RatDiv(Rat(adc_rate(o), 1), Rat(o.decim, 1))

\* lines 66-74: use options.sample_rate unless not provided by user
ResolveSampleRate ==
    /\ pc = "resolve"
    /\ IF sample_rate # None
       THEN pc' = "validate" /\ UNCHANGED <<sample_rate, err>>
       ELSE IF options.decim = 0
            THEN Raise("ZeroDivisionError") /\ UNCHANGED sample_rate
            ELSE /\ sample_rate' = Some(ComputedRate(options))
                 /\ pc' = "validate" /\ err' = err
    /\ UNCHANGED <<options, blocks, edges, src, stage1, stage2,
                   decimation_rate, samples_per_symbol, todo, held, started,
                   flow, interrupted, exit_status>>

\* the test of line 77 with <= for <: the minimum itself is refused
BelowMinimum_inclusive(rate) == ~RatLess(min_sample_rate, rate)

\* line 77: the test of the sample rate
BelowMinimum(rate) == RatLess(rate, min_sample_rate)

\* lines 76-78: make sure we have a high enough sample rate
CheckSampleRate ==
    /\ pc = "validate"
    /\ IF BelowMinimum(Val(sample_rate))
       THEN Raise("ValueError: Sample rate below minimum")
       ELSE pc' = "source" /\ err' = err
    /\ UNCHANGED <<options, sample_rate, blocks, edges, src, stage1, stage2,
                   decimation_rate, samples_per_symbol, todo, held, started,
                   flow, interrupted, exit_status>>

\* lines 86-108 without the usrp2 test of line 88: a USRP source is built
\* for a USRP2 as well
SourceBlock_no_usrp2_test(o) ==
    IF o.input_file = None
    THEN Some([kind |-> "usrp.source_c", decim_rate |-> o.decim])
    ELSE IF o.input_file = Some("-")
         THEN Some([kind |-> "gr.file_descriptor_source",
                    itemsize |-> input_size(o), fd |-> 0])
         ELSE Some([kind |-> "gr.file_source", itemsize |-> input_size(o),
                    filename |-> Val(o.input_file)])

\* lines 86-108: the source block the options select; None when the code
\* raises NotImplementedError before building one
SourceBlock(o) ==
    IF o.input_file = None
    THEN IF o.usrp2 THEN None
         ELSE Some([kind |-> "usrp.source_c", decim_rate |-> o.decim])
    ELSE IF o.input_file = Some("-")
         THEN Some([kind |-> "gr.file_descriptor_source",
                    itemsize |-> input_size(o), fd |-> 0])
         ELSE Some([kind |-> "gr.file_source", itemsize |-> input_size(o),
                    filename |-> Val(o.input_file)])

\* lines 85-108: select input source; r is the result of src.tune
SelectSource ==
    /\ pc = "source"
    /\ IF SourceBlock(options) = None
       THEN /\ Raise("NotImplementedError")
            /\ UNCHANGED <<blocks, src, held>>
       ELSE /\ blocks' = Append(blocks, Val(SourceBlock(options)))
            /\ src' = NewId
            /\ held' = held \cup {NewId}
            /\ IF options.input_file = None
               THEN \E r \in BOOLEAN :
                        IF ~r
                        THEN Raise("SystemExit: Failed to set USRP frequency")
                        ELSE pc' = "stage1" /\ err' = err
               ELSE pc' = "stage1" /\ err' = err
    /\ UNCHANGED <<options, sample_rate, edges, stage1, stage2,
                   decimation_rate, samples_per_symbol, todo, started,
                   flow, interrupted, exit_status>>

\* lines 110-116: stage 1: limit input to desired number of samples
InsertHead ==
    /\ pc = "stage1"
    /\ IF options.nsamples = None
       THEN stage1' = src /\ UNCHANGED <<blocks, edges>>
       ELSE /\ blocks' = Append(blocks,
                   [kind |-> "gr.head", itemsize |-> input_size(options),
                    nitems |-> Trunc(Val(options.nsamples))])
            /\ edges' = edges \cup Connect(<<src, NewId>>)
            /\ stage1' = NewId
    /\ pc' = "stage2"
    /\ UNCHANGED <<options, sample_rate, err, src, stage2, decimation_rate,
                   samples_per_symbol, todo, held, started, flow,
                   interrupted, exit_status>>

\* lines 118-124: stage 2: convert input from shorts if necessary
InsertShortToComplex ==
    /\ pc = "stage2"
    /\ IF options.input_shorts
       THEN /\ blocks' = Append(blocks,
                   [kind |-> "gr.interleaved_short_to_complex"])
            /\ edges' = edges \cup Connect(<<stage1, NewId>>)
            /\ stage2' = NewId
       ELSE stage2' = stage1 /\ UNCHANGED <<blocks, edges>>
    /\ pc' = "params"
    /\ UNCHANGED <<options, sample_rate, err, src, stage1, decimation_rate,
                   samples_per_symbol, todo, held, started, flow,
                   interrupted, exit_status>>

\* line 127: the low-pass taps, kept as the design parameters
channel_filter(rate) ==
    [gain |-> 1, sampling_freq |-> rate, cutoff_freq |-> 500000,
     transition_width |-> 500000, window |-> "WIN_HANN"]

\* line 130 dividing by the symbol rate instead of the minimum sample rate
DecimationRate_symbol(rate) == Trunc(RatDiv(rate, Rat(symbol_rate, 1)))

\* line 130 rounding up instead of truncating
DecimationRate_ceil(rate) ==
    LET q == RatDiv(rate, min_sample_rate)
    IN  IF q[2] = 1 THEN q[1] ELSE Trunc(q) + 1

\* line 130: the largest integer that leaves enough samples per symbol
DecimationRate(rate) == Trunc(RatDiv(rate, min_sample_rate))

\* line 131
SamplesPerSymbol(rate, decimation) ==
    RatDiv(RatDiv(rate, Rat(decimation, 1)), Rat(symbol_rate, 1))

\* lines 126-136: the channel parameters and the list the loop walks
ChannelParams ==
    /\ pc = "params"
    /\ decimation_rate' = DecimationRate(Val(sample_rate))
    /\ samples_per_symbol' =
           Some(SamplesPerSymbol(Val(sample_rate), decimation_rate'))
    /\ todo' = Split(options.ddc)
    /\ pc' = "loop"
    /\ UNCHANGED <<options, sample_rate, err, blocks, edges, src, stage1,
                   stage2, held, started, flow, interrupted, exit_status>>

\* lines 149-164 with the lap test ahead of the dump test: dump mode only
\* when no lap is given
decoder_lap_first(o, ddc_freq) ==
    IF o.lap = None
    THEN IF o.dump THEN Some([kind |-> "bluetooth.dump"])
         ELSE Some([kind |-> "bluetooth.LAP", ddc_freq |-> ddc_freq])
    ELSE IF o.uap = None
         THEN IF HexToInt(Val(o.lap)) = None THEN None
              ELSE Some([kind |-> "bluetooth.UAP",
                         lap |-> Val(HexToInt(Val(o.lap))),
                         packets |-> o.packets])
         ELSE IF HexToInt(Val(o.lap)) = None \/ HexToInt(Val(o.uap)) = None
              THEN None
              ELSE Some([kind |-> "bluetooth.sniffer",
                         lap |-> Val(HexToInt(Val(o.lap))),
                         uap |-> Val(HexToInt(Val(o.uap)))])

\* lines 149-164: the decoder block of a branch; None when a hex
\* conversion raises ValueError
decoder(o, ddc_freq) ==
    IF o.dump THEN Some([kind |-> "bluetooth.dump"])
    ELSE IF o.lap = None
         THEN Some([kind |-> "bluetooth.LAP", ddc_freq |-> ddc_freq])
         ELSE IF o.uap = None
              THEN IF HexToInt(Val(o.lap)) = None THEN None
                   ELSE Some([kind |-> "bluetooth.UAP",
                              lap |-> Val(HexToInt(Val(o.lap))),
                              packets |-> o.packets])
              ELSE IF HexToInt(Val(o.lap)) = None \/ HexToInt(Val(o.uap)) = None
                   THEN None
                   ELSE Some([kind |-> "bluetooth.sniffer",
                              lap |-> Val(HexToInt(Val(o.lap))),
                              uap |-> Val(HexToInt(Val(o.uap)))])

\* line 144
ddc_block(ddc_freq) ==
    [kind |-> "gr.freq_xlating_fir_filter_ccf", decimation |-> decimation_rate,
     taps |-> channel_filter(Val(sample_rate)), center_freq |-> ddc_freq,
     sampling_freq |-> Val(sample_rate)]

\* line 147
demod_block ==
    [kind |-> "blks2.gmsk_demod", mu |-> Rat(32, 100),
     samples_per_symbol |-> Val(samples_per_symbol)]

\* line 167 connecting each branch after the previous branch's decoder
\* instead of stage2
BranchEdges_chain(upstream, ddc, demod, dst) ==
    Connect(<<IF ddc > upstream + 1 THEN ddc - 1 ELSE upstream, ddc, demod, dst>>)

\* line 167: the connections of one branch
BranchEdges(upstream, ddc, demod, dst) == Connect(<<upstream, ddc, demod, dst>>)

\* lines 136-167: one iteration of the loop over options.ddc.split(",")
BuildBranch ==
    /\ pc = "loop"
    /\ todo # <<>>
    /\ LET f == str_to_num(Head(todo)) IN
       IF f = None
       THEN /\ Raise("RuntimeError: Invalid engineering notation value")
            /\ UNCHANGED <<blocks, edges, todo>>
       ELSE LET ddc_freq == Trunc(Val(f))
                dst      == decoder(options, ddc_freq)
            IN  IF dst = None
                THEN /\ blocks' = blocks \o <<ddc_block(ddc_freq), demod_block>>
                     /\ Raise("ValueError: invalid literal for int()")
                     /\ UNCHANGED <<edges, todo>>
                ELSE /\ blocks' = blocks \o
                                  <<ddc_block(ddc_freq), demod_block, Val(dst)>>
                     /\ edges' = edges \cup
                            BranchEdges(stage2, NewId, NewId + 1, NewId + 2)
                     /\ todo' = Tail(todo)
                     /\ pc' = IF Tail(todo) = <<>> THEN "built" ELSE "loop"
                     /\ err' = err
    /\ UNCHANGED <<options, sample_rate, src, stage1, stage2, decimation_rate,
                   samples_per_symbol, held, started, flow, interrupted,
                   exit_status>>

---------------------------------------------------------------------------
(* my_top_block().run(): the flow graph at work.                           *)

HasHead == stage1 # src
HasShortToComplex == stage2 # stage1

\* the ddc blocks reading the stage 2 output
BranchIds ==
    {e[2] : e \in {x \in edges : x[1] = stage2
                     /\ blocks[x[2]].kind = "gr.freq_xlating_fir_filter_ccf"}}

\* items that have left stage 1 and stage 2
Stage1Out == IF HasHead THEN flow.passed ELSE flow.produced
Stage2Out == IF HasShortToComplex THEN flow.converted ELSE Stage1Out

\* whether the source reports end of stream once its items are read
SourceEnds ==
    CASE blocks[src].kind = "gr.file_source" -> TRUE
      [] blocks[src].kind = "gr.file_descriptor_source" -> flow.eof
      [] OTHER -> FALSE

\* gr.head has copied its nitems items and reports done
HeadDone == HasHead /\ flow.passed >= blocks[stage1].nitems

\* line 171: run() starts every block
Run ==
    /\ pc = "built"
    /\ pc' = "running"
    /\ started' = 1..Len(blocks)
    /\ flow' = [flow EXCEPT !.consumed = [i \in BranchIds |-> 0]]
    /\ UNCHANGED <<options, sample_rate, err, blocks, edges, src, stage1,
                   stage2, decimation_rate, samples_per_symbol, todo, held,
                   interrupted, exit_status>>

\* the source writes one item
SourceWork ==
    /\ pc = "running"
    /\ ~HeadDone
    /\ flow.produced < flow.total
    /\ flow' = [flow EXCEPT !.produced = @ + 1]
    /\ UNCHANGED <<options, sample_rate, pc, err, blocks, edges, src, stage1,
                   stage2, decimation_rate, samples_per_symbol, todo, held,
                   started, interrupted, exit_status>>

\* gr.head copies one item of its item size
HeadWork ==
    /\ pc = "running"
    /\ HasHead
    /\ ~HeadDone
    /\ flow.passed < flow.produced
    /\ flow' = [flow EXCEPT !.passed = @ + 1]
    /\ UNCHANGED <<options, sample_rate, pc, err, blocks, edges, src, stage1,
                   stage2, decimation_rate, samples_per_symbol, todo, held,
                   started, interrupted, exit_status>>

\* gr.interleaved_short_to_complex turns two shorts into one complex sample
ShortToComplexWork ==
    /\ pc = "running"
    /\ HasShortToComplex
    /\ 2 * (flow.converted + 1) <= Stage1Out
    /\ flow' = [flow EXCEPT !.converted = @ + 1]
    /\ UNCHANGED <<options, sample_rate, pc, err, blocks, edges, src, stage1,
                   stage2, decimation_rate, samples_per_symbol, todo, held,
                   started, interrupted, exit_status>>

\* the ddc of branch i reads one complex sample of the stage 2 output
BranchWork(i) ==
    /\ pc = "running"
    /\ flow.consumed[i] < Stage2Out
    /\ flow' = [flow EXCEPT !.consumed[i] = @ + 1]
    /\ UNCHANGED <<options, sample_rate, pc, err, blocks, edges, src, stage1,
                   stage2, decimation_rate, samples_per_symbol, todo, held,
                   started, interrupted, exit_status>>

\* the input is over and every block has drained its input: run() returns
Finish ==
    /\ pc = "running"
    /\ HeadDone \/ (SourceEnds /\ flow.produced = flow.total)
    /\ HasHead => HeadDone \/ flow.passed = flow.produced
    /\ HasShortToComplex => flow.converted = Stage1Out \div 2
    /\ \A i \in BranchIds : flow.consumed[i] = Stage2Out
    /\ pc' = "done"
    /\ started' = {}
    /\ UNCHANGED <<options, sample_rate, err, blocks, edges, src, stage1,
                   stage2, decimation_rate, samples_per_symbol, todo, held,
                   flow, interrupted, exit_status>>

---------------------------------------------------------------------------
(* __main__: the end of the process.                                       *)

\* lines 169-173 without the except clause: KeyboardInterrupt ends the
\* script like any other exception
ExitStatus_uncaught(exc) == IF exc = "" THEN 0 ELSE 1

\* lines 169-173: the exit status of the script when exc leaves
\* my_top_block().run() ("" when run() returns)
ExitStatus(exc) == IF exc \in {"", "KeyboardInterrupt"} THEN 0 ELSE 1

\* lines 172-173: KeyboardInterrupt is caught and passed over; the script
\* ends, and with the process every block and every descriptor it holds
Interrupt ==
    /\ pc \in {"start", "resolve", "validate", "source", "stage1", "stage2",
               "params", "loop", "built", "running"}
    /\ interrupted' = TRUE
    /\ pc' = "exited"
    /\ exit_status' = Some(ExitStatus("KeyboardInterrupt"))
    /\ started' = {}
    /\ held' = {}
    /\ UNCHANGED <<options, sample_rate, err, blocks, edges, src, stage1,
                   stage2, decimation_rate, samples_per_symbol, todo, flow>>

\* lines 169-173: run() returned, or an exception other than
\* KeyboardInterrupt left the try statement
ProcessExit ==
    /\ pc \in {"raised", "done"}
    /\ pc' = "exited"
    /\ exit_status' = Some(ExitStatus(err))
    /\ started' = {}
    /\ held' = {}
    /\ UNCHANGED <<options, sample_rate, err, blocks, edges, src, stage1,
                   stage2, decimation_rate, samples_per_symbol, todo, flow,
                   interrupted>>

Next ==
    \/ ParseArgs
    \/ ResolveSampleRate
    \/ CheckSampleRate
    \/ SelectSource
    \/ InsertHead
    \/ InsertShortToComplex
    \/ ChannelParams
    \/ BuildBranch
    \/ Run
    \/ SourceWork
    \/ HeadWork
    \/ ShortToComplexWork
    \/ \E i \in BranchIds : BranchWork(i)
    \/ Finish
    \/ Interrupt
    \/ ProcessExit

Spec == Init /\ [][Next]_vars

---------------------------------------------------------------------------
(* Vocabulary of the properties.                                           *)

\* the resolved sample rate as a number, compared without the Rat operators
RateBelow(hz) == Val(sample_rate)[1] < hz * Val(sample_rate)[2]

\* block ids by kind
IdsOf(kind) == {i \in 1..Len(blocks) : blocks[i].kind = kind}
DdcIds == IdsOf("gr.freq_xlating_fir_filter_ccf")
DemodIds == IdsOf("blks2.gmsk_demod")
DecoderIds ==
    {i \in 1..Len(blocks) :
        blocks[i].kind \in {"bluetooth.dump", "bluetooth.LAP", "bluetooth.UAP",
                            "bluetooth.sniffer"}}

Constructed == pc \in {"built", "running", "done"}
HardwareSource == options.input_file = None

---------------------------------------------------------------------------
(* C1: the sample-rate check raises the ValueError exactly when the        *)
(* resolved sample rate is below 2,000,000 and lets every rate of at       *)
(* least 2,000,000, the boundary included, through to source selection;    *)
(* no block exists unless the rate is at least 2,000,000.                  *)

C1_Step ==
    (pc = "validate" /\ ~interrupted') =>
        IF RateBelow(2000000)
        THEN pc' = "raised" /\ err' = "ValueError: Sample rate below minimum"
        ELSE pc' = "source" /\ err' = ""

C1_State ==
    /\ err = "ValueError: Sample rate below minimum" =>
           sample_rate # None /\ RateBelow(2000000) /\ blocks = <<>>
    /\ blocks # <<>> => sample_rate # None /\ ~RateBelow(2000000)

\* C1: the check fails exactly the rates below 2,000,000, at every step and
\* in every state
C1_SampleRateValidation == [][C1_Step]_vars /\ []C1_State

\* the boundary rate 2,000,000 has passed the check
C1_Witness == pc = "source" /\ sample_rate = Some(<<2000000, 1>>)

---------------------------------------------------------------------------
(* C3: once the rate is resolved, with no explicit --sample-rate and a     *)
(* decimation factor > 0 it is 100,000,000 / decim when --usrp2 is set     *)
(* and 64,000,000 / decim otherwise; an explicit --sample-rate is the      *)
(* resolved rate whatever --usrp2 and --decim are.                         *)

C3_ResolvedRate ==
    /\ options.sample_rate # None => sample_rate = options.sample_rate
    /\ (options.sample_rate = None /\ sample_rate # None) =>
           /\ options.decim # 0
           /\ LET adc  == IF options.usrp2 THEN 100000000 ELSE 64000000
                  sign == IF options.decim < 0 THEN -1 ELSE 1
                  g    == (sign * options.decim) \div Val(sample_rate)[2]
              IN  \* num / den = adc / decim, with g the factor cancelled
                  /\ Val(sample_rate)[2] * g = sign * options.decim
                  /\ Val(sample_rate)[1] * g = sign * adc
    /\ (pc \in {"validate", "source", "stage1", "stage2", "params", "loop",
                "built", "running", "done"}) => sample_rate # None

\* the rate was computed for a USRP2 with the default decimation
C3_Witness ==
    /\ pc = "validate"
    /\ options.sample_rate = None /\ options.usrp2 /\ options.decim = 32
    /\ sample_rate = Some(<<3125000, 1>>)

---------------------------------------------------------------------------
(* C4: every frequency-translating filter is built with the decimation     *)
(* floor(sample rate / 2,000,000), which is at least 1; the decimation     *)
(* rate of a graph under construction is never 0.                          *)

FloorOfRate(hz) == Val(sample_rate)[1] \div (hz * Val(sample_rate)[2])

C4_DecimationRate ==
    /\ \A i \in DdcIds :
           /\ blocks[i].decimation = FloorOfRate(2000000)
           /\ blocks[i].decimation >= 1
    /\ pc \in {"loop", "built", "running", "done"} =>
           decimation_rate = FloorOfRate(2000000) /\ decimation_rate >= 1

\* a filter built for 5,000,000 samples per second decimates by 2
C4_Witness ==
    \E i \in DdcIds :
        blocks[i].sampling_freq = <<5000000, 1>> /\ blocks[i].decimation = 2

---------------------------------------------------------------------------
(* C5: every demodulator is built with samples_per_symbol =                *)
(* (sample rate / decimation rate) / 1,000,000, the same value in every    *)
(* branch, and that value is at least 2.                                   *)

C5_SamplesPerSymbol ==
    \A i \in DemodIds :
        LET sps == blocks[i].samples_per_symbol
            dr  == blocks[i - 1].decimation
        IN  /\ blocks[i - 1].kind = "gr.freq_xlating_fir_filter_ccf"
            /\ RatMul(RatMul(sps, <<dr, 1>>), <<1000000, 1>>) = Val(sample_rate)
            /\ sps[1] >= 2 * sps[2]
            /\ Some(sps) = samples_per_symbol
            /\ \A j \in DemodIds : blocks[j].samples_per_symbol = sps

\* a demodulator running at 2.5 samples per symbol after decimating by 2
C5_Witness ==
    \E i \in DemodIds :
        /\ blocks[i].samples_per_symbol = <<5, 2>>
        /\ blocks[i - 1].decimation = 2

---------------------------------------------------------------------------
(* C2: the decoder of every branch is decided by (dump, lap given, uap     *)
(* given) alone: dump -> bluetooth.dump whatever lap and uap are;          *)
(* otherwise no lap and no uap -> bluetooth.LAP with the branch's own      *)
(* offset; lap without uap -> bluetooth.UAP(lap, packets); lap and uap ->  *)
(* bluetooth.sniffer(lap, uap).  Every branch of a graph has exactly one   *)
(* decoder and all decoders are of the same kind.  (A uap without a lap    *)
(* is ignored by the code; a decoder is not built only when a lap or uap   *)
(* that the selected mode converts is not a hexadecimal literal.)          *)

\* the values of the hexadecimal literals "1a" and "47"
LapNumber == IF options.lap = Some(<<"1", "a">>) THEN 26 ELSE -1
UapNumber == IF options.uap = Some(<<"4", "7">>) THEN 71 ELSE -1

\* C2: every decoder is the one the table gives for (dump, lap, uap)
C2_ModeSelection ==
    /\ \A d \in DecoderIds :
           LET b == blocks[d] IN
           /\ options.dump => b = [kind |-> "bluetooth.dump"]
           /\ (~options.dump /\ options.lap = None /\ options.uap = None) =>
                  /\ b.kind = "bluetooth.LAP"
                  /\ b.ddc_freq = blocks[d - 2].center_freq
           /\ (~options.dump /\ options.lap = None /\ options.uap # None) =>
                  b.kind = "bluetooth.LAP"
           /\ (~options.dump /\ options.lap # None /\ options.uap = None) =>
                  /\ b.kind = "bluetooth.UAP"
                  /\ b.lap = LapNumber /\ b.packets = options.packets
           /\ (~options.dump /\ options.lap # None /\ options.uap # None) =>
                  /\ b.kind = "bluetooth.sniffer"
                  /\ b.lap = LapNumber /\ b.uap = UapNumber
           /\ \A e \in DecoderIds : blocks[e].kind = b.kind
           /\ blocks[d - 2].kind = "gr.freq_xlating_fir_filter_ccf"
    /\ Constructed =>
           /\ DecoderIds # {}
           /\ \A i \in DdcIds : i + 2 \in DecoderIds
    /\ err = "ValueError: invalid literal for int()" =>
           /\ ~options.dump /\ options.lap # None
           /\ \/ LapNumber = -1
              \/ options.uap # None /\ UapNumber = -1

\* dump mode chosen for three branches although lap and uap are given
C2_Witness ==
    /\ Constructed
    /\ options.dump /\ options.lap # None /\ options.uap # None
    /\ Cardinality(DecoderIds) = 3
    /\ \A d \in DecoderIds : blocks[d].kind = "bluetooth.dump"

---------------------------------------------------------------------------
(* C6: a channel list with k entries gives exactly k branches whose        *)
(* offsets are the entries in list order, duplicates included; each        *)
(* branch has a filter, a demodulator and a decoder of its own, and the    *)
(* only block read by more than one block is the stage 2 output.           *)

Commas(s) == Cardinality({k \in 1..Len(s) : s[k] = ","})

\* the b-th filter in order of construction
NthDdc(b) == CHOOSE i \in DdcIds : Cardinality({j \in DdcIds : j < i}) = b - 1

Offsets == [b \in 1..Cardinality(DdcIds) |-> blocks[NthDdc(b)].center_freq]

Into(i) == {e \in edges : e[2] = i}
OutOf(i) == {e \in edges : e[1] = i}

\* C6: k entries give k branches, in list order, sharing only stage 2
C6_ChannelFanOut ==
    /\ Constructed =>
           /\ Cardinality(DdcIds) = Commas(options.ddc) + 1
           /\ \A b \in 1..Cardinality(DdcIds) :
                  Offsets[b] = Trunc(Val(str_to_num(Split(options.ddc)[b])))
           /\ options.ddc = <<"0", ",", "1", "0", "0", "0", "0", "0", "0", ",",
                              "2", "0", "0", "0", "0", "0", "0">> =>
                  Offsets = <<0, 1000000, 2000000>>
           /\ options.ddc = <<"0", ",", "1", "M">> => Offsets = <<0, 1000000>>
           /\ options.ddc = <<"0", ",", "0">> => Offsets = <<0, 0>>
           /\ \A i \in DdcIds :
                  /\ Into(i) = {<<stage2, i>>}
                  /\ OutOf(i) = {<<i, i + 1>>} /\ i + 1 \in DemodIds
                  /\ Into(i + 1) = {<<i, i + 1>>}
                  /\ OutOf(i + 1) = {<<i + 1, i + 2>>} /\ i + 2 \in DecoderIds
                  /\ Into(i + 2) = {<<i + 1, i + 2>>}
                  /\ OutOf(i + 2) = {}
           /\ Cardinality(DemodIds) = Cardinality(DdcIds)
           /\ Cardinality(DecoderIds) = Cardinality(DdcIds)
    /\ \A i \in 1..Len(blocks) :
           /\ Cardinality(Into(i)) <= 1
           /\ Cardinality(OutOf(i)) > 1 => i = stage2

\* the three branches of "0,1000000,2000000" behind a head and a converter
C6_Witness ==
    /\ Constructed
    /\ HasHead /\ HasShortToComplex
    /\ Offsets = <<0, 1000000, 2000000>>
    /\ Cardinality(OutOf(stage2)) = 3

---------------------------------------------------------------------------
(* C7: when a configuration error is raised (the sample rate is below the  *)
(* minimum, or an entry of the channel list is malformed) no source has    *)
(* been acquired and no connection has been made.                          *)

C7_ConfigErrorsBeforeConstruction ==
    (pc = "raised"
     /\ err \in {"ValueError: Sample rate below minimum",
                 "RuntimeError: Invalid engineering notation value"}) =>
        src = 0 /\ held = {} /\ blocks = <<>> /\ edges = {}

---------------------------------------------------------------------------
(* C8: after KeyboardInterrupt the process has ended with exit status 0,   *)
(* no block is running and no block holds a device handle or an open       *)
(* file.                                                                   *)

---------------------------------------------------------------------------
(* C9: when --nsamples N is given, a finished run has delivered to every   *)
(* branch exactly min(N, complex samples the source provides) complex      *)
(* samples, for complex-float and for interleaved-short input.             *)

Min(a, b) == IF a <= b THEN a ELSE b

\* complex samples in the source's items
ComplexProvided ==
    IF options.input_shorts THEN flow.total \div 2 ELSE flow.total

\* C9: a finished run with --nsamples N delivered min(N, provided) complex
\* samples to every branch
C9_SampleLimit ==
    (pc = "done" /\ options.nsamples # None) =>
        \A i \in BranchIds :
            flow.consumed[i] =
                IF SourceEnds
                THEN Min(Trunc(Val(options.nsamples)), ComplexProvided)
                ELSE Trunc(Val(options.nsamples))

---------------------------------------------------------------------------
(* C10 as stated: every start-up that selects the hardware source with     *)
(* --usrp2 set and ends in an error ends in NotImplementedError, and       *)
(* when NotImplementedError or the tuning failure is raised nothing has    *)
(* been connected.                                                         *)

NothingConnected ==
    /\ edges = {}
    /\ \A i \in 1..Len(blocks) : blocks[i].kind = "usrp.source_c"

\* C10 as stated: a USRP2 hardware start-up fails only with
\* NotImplementedError
C10_HardwareErrors ==
    /\ (pc = "raised" /\ HardwareSource /\ options.usrp2) =>
           err = "NotImplementedError"
    /\ err \in {"NotImplementedError",
                "SystemExit: Failed to set USRP frequency"} => NothingConnected

(* C10 amended: a start-up that selects the hardware source with --usrp2   *)
(* set never builds a block, and it ends in NotImplementedError exactly    *)
(* when the arguments parse and the sample rate resolves to at least       *)
(* 2,000,000; otherwise the earlier usage, division or sample-rate error   *)
(* is raised.  Source selection for the hardware source raises             *)
(* NotImplementedError with --usrp2 and otherwise either the tuning        *)
(* failure or nothing.  When either error is raised nothing has been       *)
(* connected.                                                              *)

C10_State ==
    /\ (HardwareSource /\ options.usrp2) =>
           /\ blocks = <<>>
           /\ pc \in {"start", "resolve", "validate", "source", "raised",
                      "exited"}
    /\ (pc = "raised" /\ HardwareSource /\ options.usrp2) =>
           /\ err = "NotImplementedError" <=>
                  /\ options.nargs = 0
                  /\ sample_rate # None
                  /\ ~RateBelow(2000000)
           /\ err \in {"NotImplementedError", "SystemExit: 1",
                       "ZeroDivisionError",
                       "ValueError: Sample rate below minimum"}
    /\ err = "NotImplementedError" =>
           HardwareSource /\ options.usrp2 /\ blocks = <<>> /\ edges = {}
    /\ err = "SystemExit: Failed to set USRP frequency" =>
           /\ HardwareSource /\ ~options.usrp2
           /\ NothingConnected /\ Len(blocks) = 1
           /\ ~RateBelow(2000000)

C10_Step ==
    (pc = "source" /\ HardwareSource /\ ~interrupted') =>
        IF options.usrp2
        THEN pc' = "raised" /\ err' = "NotImplementedError"
        ELSE \/ pc' = "raised" /\ err' = "SystemExit: Failed to set USRP frequency"
             \/ pc' = "stage1" /\ err' = ""

\* C10 amended: NotImplementedError exactly when the rate resolves to at
\* least 2,000,000; nothing connected at either hardware error
C10_HardwareErrorsAmended == [][C10_Step]_vars /\ []C10_State

\* NotImplementedError raised for a USRP2 at a valid rate, nothing built
C10_Witness ==
    /\ pc = "raised" /\ err = "NotImplementedError"
    /\ HardwareSource /\ options.usrp2
    /\ ~RateBelow(2000000)
    /\ blocks = <<>> /\ edges = {}

====
